---- MODULE Spec2Model ----
(***************************************************************************)
(* Session state machine of the Connections puzzle game (src/game.js):     *)
(* the `state` object, the localStorage snapshots and the handlers         *)
(* toggle, submit, deselectAll, shuffleBoard, resetPuzzle and loadPuzzle.  *)
(*                                                                         *)
(* Pool indices are the 0-based indices of game.js; TLA+ sequences are     *)
(* 1-based, so pool index i is element i+1 of pool().                      *)
(* Characters outside ASCII are written as their JavaScript \uXXXX escape. *)
(***************************************************************************)
EXTENDS Integers, Sequences, FiniteSets, TLC

(* ---------- Catalog (SAMPLES) ---------- *)

Puzzle1 ==
  [id |-> "Puzzle 1", groups |-> <<
    [category |-> "FALSE FRIENDS (EN WORDS, FR MEANINGS)", color |-> "purple",
     words |-> <<"LOCATION", "LECTURE", "SENSIBLE", "AGENDA">>],
    [category |-> "FRENCH LOANWORDS IN ENGLISH", color |-> "blue",
     words |-> <<"CAF\\u00C9", "MENU", "CHEF", "DEPOT">>],
    [category |-> "HOMOGRAPHS ACROSS LANGUAGES", color |-> "green",
     words |-> <<"CHAT", "PAIN", "COIN", "GIFT">>],
    [category |-> "INTERNATIONAL WORDS", color |-> "yellow",
     words |-> <<"TAXI", "HOTEL", "RADIO", "PIANO">>]
  >>]

Puzzle2 ==
  [id |-> "Puzzle 2", groups |-> <<
    [category |-> "HOMOPHONES OF NUMBERS", color |-> "yellow",
     words |-> <<"WON", "TOO", "FOR", "ATE">>],
    [category |-> "WORDS ENDING IN -OUGH", color |-> "green",
     words |-> <<"THROUGH", "THOUGH", "ROUGH", "COUGH">>],
    [category |-> "SAME /U:/ VOWEL SOUND", color |-> "blue",
     words |-> <<"BLUE", "TRUE", "CREW", "SHOE">>],
    [category |-> "WORDS WITH SILENT LETTERS", color |-> "purple",
     words |-> <<"KNIGHT", "WRITE", "THUMB", "LAMB">>]
  >>]

Puzzle3 ==
  [id |-> "Puzzle 3", groups |-> <<
    [category |-> "PERCEPTUAL FREQUENCY SCALES", color |-> "purple",
     words |-> <<"MEL", "BARK", "ERB", "SEMITONE">>],
    [category |-> "PROSODIC FEATURES", color |-> "blue",
     words |-> <<"PITCH", "STRESS", "TONE", "DURATION">>],
    [category |-> "SPECTRAL COMPONENTS", color |-> "green",
     words |-> <<"FORMANT", "HARMONIC", "CEPSTRUM", "SPECTRUM">>],
    [category |-> "MEASUREMENT UNITS", color |-> "yellow",
     words |-> <<"HERTZ", "DECIBEL", "FRAME", "SAMPLE">>]
  >>]

Puzzle4 ==
  [id |-> "Puzzle 4", groups |-> <<
    [category |-> "MEANS \"GIFT\" (EN/FR/DE/ES)", color |-> "purple",
     words |-> <<"GIFT", "CADEAU", "GESCHENK", "REGALO">>],
    [category |-> "MEANS \"NAME\" (EN/FR/ES/IT)", color |-> "blue",
     words |-> <<"NAME", "NOM", "NOMBRE", "NOME">>],
    [category |-> "MEANS \"WORD\" (FR/DE/ES/IT)", color |-> "green",
     words |-> <<"MOT", "WORT", "PALABRA", "PAROLA">>],
    [category |-> "MEANS \"LANGUAGE\" (FR/DE/ES/IT)", color |-> "yellow",
     words |-> <<"LANGUE", "SPRACHE", "LENGUA", "LINGUA">>]
  >>]

Puzzle5 ==
  [id |-> "Puzzle 5", groups |-> <<
    [category |-> "DISTINCTIVE PHONOLOGICAL FEATURES", color |-> "purple",
     words |-> <<"SONORANT", "CONTINUANT", "STRIDENT", "SIBILANT">>],
    [category |-> "PLACES OF ARTICULATION", color |-> "blue",
     words |-> <<"LABIAL", "DENTAL", "VELAR", "GLOTTAL">>],
    [category |-> "PHONATION TYPES", color |-> "green",
     words |-> <<"CREAKY", "BREATHY", "MODAL", "FALSETTO">>],
    [category |-> "SYNTACTIC CONSTITUENTS", color |-> "yellow",
     words |-> <<"CLAUSE", "PHRASE", "MORPHEME", "LEXEME">>]
  >>]

Puzzle6 ==
  [id |-> "Puzzle 6", groups |-> <<
    [category |-> "TOKENIZATION ALGORITHMS", color |-> "purple",
     words |-> <<"BPE", "WORDPIECE", "SENTENCEPIECE", "UNIGRAM">>],
    [category |-> "DECODING STRATEGIES", color |-> "blue",
     words |-> <<"GREEDY", "BEAM", "SAMPLING", "NUCLEUS">>],
    [category |-> "ACOUSTIC FEATURES", color |-> "green",
     words |-> <<"MFCC", "FBANK", "SPECTROGRAM", "WAVEFORM">>],
    [category |-> "NEURAL ARCHITECTURES", color |-> "yellow",
     words |-> <<"TRANSFORMER", "CONFORMER", "LSTM", "GRU">>]
  >>]

Puzzle7 ==
  [id |-> "Puzzle 7", groups |-> <<
    [category |-> "MEANS \"POTATO\" (FR/DE/RU/ES)", color |-> "purple",
     words |-> <<"POMME DE TERRE", "KARTOFFEL", "\\u041A\\u0410\\u0420\\u0422\\u041E\\u0424\\u0415\\u041B\\u042C", "PATATA">>],
    [category |-> "MEANS \"ORANGE\" (FR/DE/RU/ES)", color |-> "blue",
     words |-> <<"ORANGE", "APFELSINE", "\\u0410\\u041F\\u0415\\u041B\\u042C\\u0421\\u0418\\u041D", "NARANJA">>],
    [category |-> "MEANS \"PINEAPPLE\" (FR/DE/RU/ES)", color |-> "green",
     words |-> <<"ANANAS", "ANANAS", "\\u0410\\u041D\\u0410\\u041D\\u0410\\u0421", "PI\\u00D1A">>],
    [category |-> "MEANS \"LEMON\" (FR/DE/RU/ES)", color |-> "yellow",
     words |-> <<"CITRON", "ZITRONE", "\\u041B\\u0418\\u041C\\u041E\\u041D", "LIM\\u00D3N">>]
  >>]

Puzzle8 ==
  [id |-> "Puzzle 8", groups |-> <<
    [category |-> "PHONOLOGICAL PROCESSES", color |-> "purple",
     words |-> <<"ASSIMILATION", "DISSIMILATION", "EPENTHESIS", "METATHESIS">>],
    [category |-> "LINGUISTIC TYPOLOGY", color |-> "blue",
     words |-> <<"AGGLUTINATIVE", "FUSIONAL", "ISOLATING", "POLYSYNTHETIC">>],
    [category |-> "WRITING SYSTEMS", color |-> "green",
     words |-> <<"ABJAD", "ABUGIDA", "SYLLABARY", "LOGOGRAPHIC">>],
    [category |-> "SPEECH ERRORS", color |-> "yellow",
     words |-> <<"SPOONERISM", "MALAPROPISM", "EGGCORN", "MONDEGREEN">>]
  >>]

Puzzle9 ==
  [id |-> "Puzzle 9", groups |-> <<
    [category |-> "LOSS FUNCTIONS IN ASR/TTS", color |-> "purple",
     words |-> <<"CTC", "TRANSDUCER", "ATTENTION", "FOCAL">>],
    [category |-> "DATA AUGMENTATION METHODS", color |-> "blue",
     words |-> <<"SPECAUGMENT", "MIXUP", "SPEED", "VOLUME">>],
    [category |-> "SPEECH CORPORA", color |-> "green",
     words |-> <<"LIBRISPEECH", "COMMONVOICE", "VCTK", "LJSPEECH">>],
    [category |-> "EVALUATION METRICS", color |-> "yellow",
     words |-> <<"WER", "MOS", "BLEU", "PESQ">>]
  >>]

Puzzle10 ==
  [id |-> "Puzzle 10", groups |-> <<
    [category |-> "NEURAL VOCODERS", color |-> "purple",
     words |-> <<"HIFIGAN", "MELGAN", "WAVEGLOW", "PARALLEL-WAVEGAN">>],
    [category |-> "END-TO-END TTS MODELS", color |-> "blue",
     words |-> <<"TACOTRON", "FASTSPEECH", "VITS", "GLOWTTS">>],
    [category |-> "SELF-SUPERVISED SPEECH MODELS", color |-> "green",
     words |-> <<"WAV2VEC", "HUBERT", "WAVLM", "W2V-BERT">>],
    [category |-> "SPEECH SYNTHESIS FEATURES", color |-> "yellow",
     words |-> <<"PROSODY", "SPEAKER", "STYLE", "EMOTION">>]
  >>]

JsSortOrder ==
  << "ABJAD", "ABUGIDA", "AGENDA", "AGGLUTINATIVE", "ANANAS",
     "APFELSINE", "ASSIMILATION", "ATE", "ATTENTION", "BARK",
     "BEAM", "BLEU", "BLUE", "BPE", "BREATHY",
     "CADEAU", "CAF\\u00C9", "CEPSTRUM", "CHAT", "CHEF",
     "CITRON", "CLAUSE", "COIN", "COMMONVOICE", "CONFORMER",
     "CONTINUANT", "COUGH", "CREAKY", "CREW", "CTC",
     "DECIBEL", "DENTAL", "DEPOT", "DISSIMILATION", "DURATION",
     "EGGCORN", "EMOTION", "EPENTHESIS", "ERB", "FALSETTO",
     "FASTSPEECH", "FBANK", "FOCAL", "FOR", "FORMANT",
     "FRAME", "FUSIONAL", "GESCHENK", "GIFT", "GLOTTAL",
     "GLOWTTS", "GREEDY", "GRU", "HARMONIC", "HERTZ",
     "HIFIGAN", "HOTEL", "HUBERT", "ISOLATING", "KARTOFFEL",
     "KNIGHT", "LABIAL", "LAMB", "LANGUE", "LECTURE",
     "LENGUA", "LEXEME", "LIBRISPEECH", "LIM\\u00D3N", "LINGUA",
     "LJSPEECH", "LOCATION", "LOGOGRAPHIC", "LSTM", "MALAPROPISM",
     "MEL", "MELGAN", "MENU", "METATHESIS", "MFCC",
     "MIXUP", "MODAL", "MONDEGREEN", "MORPHEME", "MOS",
     "MOT", "NAME", "NARANJA", "NOM", "NOMBRE",
     "NOME", "NUCLEUS", "ORANGE", "PAIN", "PALABRA",
     "PARALLEL-WAVEGAN", "PAROLA", "PATATA", "PESQ", "PHRASE",
     "PIANO", "PITCH", "PI\\u00D1A", "POLYSYNTHETIC", "POMME DE TERRE",
     "PROSODY", "RADIO", "REGALO", "ROUGH", "SAMPLE",
     "SAMPLING", "SEMITONE", "SENSIBLE", "SENTENCEPIECE", "SHOE",
     "SIBILANT", "SONORANT", "SPEAKER", "SPECAUGMENT", "SPECTROGRAM",
     "SPECTRUM", "SPEED", "SPOONERISM", "SPRACHE", "STRESS",
     "STRIDENT", "STYLE", "SYLLABARY", "TACOTRON", "TAXI",
     "THOUGH", "THROUGH", "THUMB", "TONE", "TOO",
     "TRANSDUCER", "TRANSFORMER", "TRUE", "UNIGRAM", "VCTK",
     "VELAR", "VITS", "VOLUME", "W2V-BERT", "WAV2VEC",
     "WAVEFORM", "WAVEGLOW", "WAVLM", "WER", "WON",
     "WORDPIECE", "WORT", "WRITE", "ZITRONE", "\\u0410\\u041D\\u0410\\u041D\\u0410\\u0421",
     "\\u0410\\u041F\\u0415\\u041B\\u042C\\u0421\\u0418\\u041D", "\\u041A\\u0410\\u0420\\u0422\\u041E\\u0424\\u0415\\u041B\\u042C", "\\u041B\\u0418\\u041C\\u041E\\u041D" >>

SAMPLES ==
  << Puzzle1, Puzzle2, Puzzle3, Puzzle4, Puzzle5,
     Puzzle6, Puzzle7, Puzzle8, Puzzle9, Puzzle10 >>

(* ---------- Constants of game.js ---------- *)

COLOR_MAP ==
  [c \in {"purple", "blue", "green", "yellow"} |->
     CASE c = "purple" -> "#9c27b0"
       [] c = "blue"   -> "#4da3ff"
       [] c = "green"  -> "#4caf50"
       [] c = "yellow" -> "#ffca28"]

COLOR_REVERSE ==
  [h \in {"#9c27b0", "#4da3ff", "#4caf50", "#ffca28"} |->
     CASE h = "#9c27b0" -> "purple"
       [] h = "#4da3ff" -> "blue"
       [] h = "#4caf50" -> "green"
       [] h = "#ffca28" -> "yellow"]

MAX_MISTAKES == 4

(* ---------- Bounds of the model ---------- *)

\* Number of outcomes of shuffle() that are explored for one input.
ShuffleChoices == 2

\* Number of entries of a puzzle's PickList the player chooses guesses from.
NumPicks == 7

\* Catalog positions (1-based) of the puzzles the player opens.
Opened == {1, 2, 7}

\* Catalog positions of the puzzles the player who moves between puzzles
\* opens.
Visited == {2, 7}

\* Number of fields of a stored item that are absent or of another shape
\* than restoreIfAny expects.
MaxOddFields == 2

(* ---------- Sequence helpers (JavaScript array methods) ---------- *)

Range(s) == {s[k] : k \in DOMAIN s}

\* Array.prototype.includes
Includes(s, x) == \E k \in DOMAIN s : s[k] = x

\* Array.prototype.filter, for a predicate given as the set of kept values
RECURSIVE FilterIn(_, _)
FilterIn(s, keep) ==
  IF s = <<>> THEN <<>>
  ELSE IF Head(s) \in keep THEN <<Head(s)>> \o FilterIn(Tail(s), keep)
       ELSE FilterIn(Tail(s), keep)

\* Array.prototype.flatMap(g => g.words)
RECURSIVE FlatWords(_)
FlatWords(gs) ==
  IF gs = <<>> THEN <<>> ELSE Head(gs).words \o FlatWords(Tail(gs))

\* new Set(array): insertion order, later duplicates dropped
RECURSIVE NewSet(_)
NewSet(s) ==
  IF s = <<>> THEN <<>>
  ELSE LET init == NewSet(SubSeq(s, 1, Len(s) - 1))
           x    == s[Len(s)]
       IN  IF Includes(init, x) THEN init ELSE Append(init, x)

\* Set.prototype.delete on the insertion-ordered set
SetDelete(s, x) == FilterIn(s, Range(s) \ {x})

Reverse(s) == [k \in 1..Len(s) |-> s[Len(s) + 1 - k]]

RotateLeft(s) == IF s = <<>> THEN s ELSE Append(Tail(s), Head(s))

\* Position of a word in the order of String comparison by UTF-16 code units
RankTable ==
  [w \in Range(JsSortOrder) |-> CHOOSE k \in DOMAIN JsSortOrder : JsSortOrder[k] = w]

WordRank(w) == RankTable[w]

\* Array.prototype.sort() on words: one insertion step of the sort
RECURSIVE InsertSorted(_, _)
InsertSorted(s, w) ==
  IF s = <<>> THEN <<w>>
  ELSE IF WordRank(w) < WordRank(Head(s)) THEN <<w>> \o s
       ELSE <<Head(s)>> \o InsertSorted(Tail(s), w)

RECURSIVE SortWords(_)
SortWords(s) ==
  IF s = <<>> THEN <<>>
  ELSE InsertSorted(SortWords(SubSeq(s, 1, Len(s) - 1)), s[Len(s)])

\* The key without the sort: the words in click order
SortedKey_Unsorted(words) == words

\* words.slice().sort().join(','): no catalog word holds a comma, so the joined
\* string is determined by, and determines, the sorted word list
SortedKey(words) == SortWords(words)

\* The elements of a set of pool indices in ascending order
RECURSIVE Ascending(_)
Ascending(S) ==
  IF S = {} THEN <<>>
  ELSE LET m == CHOOSE x \in S : \A y \in S : x <= y
       IN  <<m>> \o Ascending(S \ {m})



(* ---------- Catalog normalisation ---------- *)

\* String.prototype.toUpperCase on the words the model handles: the listed
\* lower-case spellings map to their upper-case form, and a word without
\* lower-case letters (every catalog word) is returned as it is
UpperCaseOf ==
  [w \in {"chat", "Gift", "caf\\u00E9"} |->
     CASE w = "chat"        -> "CHAT"
       [] w = "Gift"        -> "GIFT"
       [] w = "caf\\u00E9"  -> "CAF\\u00C9"]

ToUpperCase(w) == IF w \in DOMAIN UpperCaseOf THEN UpperCaseOf[w] ELSE w

\* COLOR_MAP[c] || c
ColorValue(c) == IF c \in DOMAIN COLOR_MAP THEN COLOR_MAP[c] ELSE c

\* COLOR_MAP[c] ? c : COLOR_REVERSE[c] || c
ColorName(c) ==
  IF c \in DOMAIN COLOR_MAP THEN c
  ELSE IF c \in DOMAIN COLOR_REVERSE THEN COLOR_REVERSE[c] ELSE c

normalizePuzzle(p) ==
  [id |-> p.id,
   groups |-> [k \in DOMAIN p.groups |->
                 [category  |-> p.groups[k].category,
                  words     |-> [j \in DOMAIN p.groups[k].words |->
                                   ToUpperCase(p.groups[k].words[j])],
                  colorName |-> ColorName(p.groups[k].color),
                  color     |-> ColorValue(p.groups[k].color)]]]

\* allPuzzles after loadPuzzle has normalised an entry (normalizePuzzle is
\* applied to the catalog entry in place on every load)
allPuzzles == [k \in DOMAIN SAMPLES |-> normalizePuzzle(SAMPLES[k])]

PuzzleIds == {allPuzzles[k].id : k \in DOMAIN allPuzzles}

OpenedIds == {allPuzzles[k].id : k \in Opened}

VisitedIds == {allPuzzles[k].id : k \in Visited}

\* state.id before any puzzle is loaded (null)
NoId == ""

\* state.data of the session whose state.id is pid
DataTable == [pid \in PuzzleIds |-> CHOOSE p \in Range(allPuzzles) : p.id = pid]

DataOf(pid) == DataTable[pid]

GroupsOf(pid) == DataOf(pid).groups

\* pool(): the flat word list; pool index i is element i + 1
PoolTable == [pid \in PuzzleIds |-> FlatWords(DataTable[pid].groups)]

pool(pid) == PoolTable[pid]

PoolIndices(pid) == 0 .. (Len(pool(pid)) - 1)

WordAt(pid, i) == pool(pid)[i + 1]

(* ---------- Persistence keys ---------- *)

STORAGE_PREFIX == "connections.v2."

StorageKey(pid) == STORAGE_PREFIX \o pid

StorageKeys == {StorageKey(pid) : pid \in PuzzleIds}

\* localStorage.getItem returns null for an absent key: the stored value is
\* modelled as a sequence holding no or one snapshot
NoItem == <<>>

(* ---------- The player's inputs ---------- *)

\* The selections the player builds, as sequences of pool indices in click
\* order.  Group k of a puzzle holds the pool indices 4k-4 .. 4k-1.
\* In Puzzle 1 the player can solve every group and err three times.
SolvingPicks ==
  << <<0, 1, 2, 3>>,       \* group 1
     <<7, 6, 5, 4>>,       \* group 2, clicked backwards
     <<8, 9, 10, 11>>,     \* group 3
     <<12, 13, 14, 15>>,   \* group 4
     <<0, 4, 8, 12>>,      \* the first card of every group
     <<8, 10, 11, 0>>,     \* three cards of group 3 and one of group 1
     <<1, 5, 9, 13>>,      \* the second card of every group
     <<12, 8, 4, 0>> >>    \* the first cards again, in another click order

\* In Puzzle 2 the player can solve two groups and err four times.
FailingPicks ==
  << <<12, 13, 14, 15>>,   \* group 4
     <<7, 6, 5, 4>>,       \* group 2, clicked backwards
     <<0, 4, 8, 12>>,      \* the first card of every group
     <<12, 8, 4, 0>>,      \* the same four cards in another click order
     <<8, 10, 11, 0>>,     \* three cards of group 3 and one of group 1
     <<1, 5, 9, 13>>,      \* the second card of every group
     <<2, 6, 10, 14>>,     \* the third card of every group
     <<8, 9, 10, 11>> >>   \* group 3

\* In Puzzle 7 pool indices 8 and 9 hold the same word.
TwinPicks ==
  << <<8, 10, 11, 0>>,     \* one twin, the rest of group 3 and one of group 1
     <<8, 9, 10, 11>>,     \* group 3
     <<12, 13, 14, 15>>,   \* group 4
     <<8, 9, 10, 12>>,     \* both twins, one more of group 3, one of group 4
     <<12, 10, 9, 8>>,     \* the same four cards in another click order
     <<0, 1, 2, 3>>,       \* group 1
     <<7, 6, 5, 4>>,       \* group 2, clicked backwards
     <<9, 10, 11, 12>> >>  \* the other twin, the rest of group 3, one of group 4

PickList(pid) ==
  CASE pid = Puzzle1.id -> SolvingPicks
    [] pid = Puzzle2.id -> FailingPicks
    [] pid = Puzzle7.id -> TwinPicks
    [] OTHER -> <<>>

PicksTable ==
  [pid \in OpenedIds |->
     {PickList(pid)[k] : k \in {j \in DOMAIN PickList(pid) : j <= NumPicks}}]

Picks(pid) == PicksTable[pid]

IsPrefix(s, t) == Len(s) <= Len(t) /\ SubSeq(t, 1, Len(s)) = s

(* ---------- shuffle ---------- *)

\* shuffle(a) returns some permutation of a; ShuffleChoices of them are
\* explored: ascending, descending, then ascending rotated by k - 2
RECURSIVE RotateBy(_, _)
RotateBy(s, n) == IF n <= 0 THEN s ELSE RotateBy(RotateLeft(s), n - 1)

ShuffleOutcome(a, k) ==
  IF k = 1 THEN Ascending(Range(a))
  ELSE IF k = 2 THEN Reverse(Ascending(Range(a)))
  ELSE RotateBy(Ascending(Range(a)), k - 2)

shuffle(a) == {ShuffleOutcome(a, k) : k \in 1..ShuffleChoices}

(* ---------- State ---------- *)

VARIABLES
  id,           \* state.id
  order,        \* state.order: pool indices of the cards on the board
  selection,    \* state.selection: a Set, kept in insertion order
  found,        \* state.found
  mistakes,     \* state.mistakes
  mistakesLog,  \* state.mistakesLog
  guesses,      \* state.guesses
  locked,       \* state.locked
  failed,       \* state.failed
  storage,      \* localStorage: key -> NoItem or <<snapshot>>
  toasts        \* the messages toast() was called with by the last handler

vars == << id, order, selection, found, mistakes, mistakesLog, guesses,
           locked, failed, storage, toasts >>

session == << order, selection, found, mistakes, mistakesLog, guesses,
              locked, failed >>

Init ==
  /\ id = NoId
  /\ order = <<>>
  /\ selection = <<>>
  /\ found = <<>>
  /\ mistakes = 0
  /\ mistakesLog = <<>>
  /\ guesses = <<>>
  /\ locked = FALSE
  /\ failed = FALSE
  /\ storage = [k \in StorageKeys |-> NoItem]
  /\ toasts = <<>>

(* ---------- buildBoard ---------- *)

FoundWords(fnd) == Range(FlatWords(fnd))

\* The active indices without the filter of the found words
ActiveIndices_All(pid, fnd) == Ascending(PoolIndices(pid))

\* words.map((w, i) => [w, i]).filter(pair => !foundWords.has(pair[0]))
ActiveIndices(pid, fnd) ==
  LET foundWords == FoundWords(fnd)
  IN  Ascending({i \in PoolIndices(pid) : WordAt(pid, i) \notin foundWords})

\* state.order.length !== activeWords.length, in the branch of an unlocked board
BoardIsStale(pid, ord, fnd, lck) ==
  ~lck /\ Len(ord) # Len(ActiveIndices(pid, fnd))

\* state.order after buildBoard()
BoardOrders(pid, ord, fnd, lck) ==
  IF BoardIsStale(pid, ord, fnd, lck) THEN shuffle(ActiveIndices(pid, fnd))
  ELSE {ord}

\* state.selection after buildBoard()
BoardSelection(pid, sel, ord, fnd, lck) ==
  IF BoardIsStale(pid, ord, fnd, lck) THEN <<>> ELSE sel

(* ---------- saveSilently / restoreIfAny ---------- *)

\* The payload with state.selection written as it is: JSON.stringify turns a
\* Set into {}, which restoreIfAny reads as no selection
Payload_SetSelection(pid, ord, sel, fnd, mis, mlog, gs, lck, fld) ==
  [id |-> pid, order |-> ord, selection |-> <<>>, found |-> fnd,
   mistakes |-> mis, mistakesLog |-> mlog, guesses |-> gs,
   locked |-> lck, failed |-> fld]

\* The payload of saveSilently: selection is written as an array.  The data
\* field is written too; nothing reads it back, and it is left out here.
Payload(pid, ord, sel, fnd, mis, mlog, gs, lck, fld) ==
  [id |-> pid, order |-> ord, selection |-> sel, found |-> fnd,
   mistakes |-> mis, mistakesLog |-> mlog, guesses |-> gs,
   locked |-> lck, failed |-> fld]

\* saveSilently writing nothing
saveSilently_Skipped(store, pid, ord, sel, fnd, mis, mlog, gs, lck, fld) == store

\* localStorage after saveSilently()
saveSilently(store, pid, ord, sel, fnd, mis, mlog, gs, lck, fld) ==
  IF pid = NoId THEN store
  ELSE [store EXCEPT ![StorageKey(pid)] =
          <<Payload(pid, ord, sel, fnd, mis, mlog, gs, lck, fld)>>]

\* A stored item that the session did not write (an older version of the
\* game, an edited or damaged item) is <<p, odd>>: p holds the fields whose
\* value has the shape restoreIfAny tests for (an array, an integer, a
\* boolean), and odd gives, for each field of another shape, what the value
\* is: "null", or "string" for a non-empty string.  An item whose odd has the
\* field json is a text on which JSON.parse, or the first read of a field,
\* throws.
Odd(raw) == IF Len(raw) >= 2 THEN raw[2] ELSE [none |-> "undefined"]

Throws(raw) == "json" \in DOMAIN Odd(raw)

\* !!v for a value of another shape than a boolean
Truthy(kind) == kind = "string"

\* p.f is an array, an integer or a boolean, as restoreIfAny expects of f
Has(p, f) == f \in DOMAIN p

\* p.f === undefined
Undefined(raw, f) == ~Has(raw[1], f) /\ f \notin DOMAIN Odd(raw)

\* !!p.f
NotNot(raw, f) ==
  IF Has(raw[1], f) THEN raw[1][f]
  ELSE IF f \in DOMAIN Odd(raw) THEN Truthy(Odd(raw)[f])
  ELSE FALSE

\* restoreIfAny taking failed from the snapshot only
restoreIfAny_NoBackCompat(store, pid) ==
  LET fresh == [order |-> <<>>, selection |-> <<>>, found |-> <<>>,
                mistakes |-> 0, mistakesLog |-> <<>>, guesses |-> <<>>,
                locked |-> FALSE, failed |-> FALSE]
      raw   == store[StorageKey(pid)]
  IN  IF pid = NoId \/ raw = NoItem THEN fresh
      ELSE IF Throws(raw) THEN fresh
      ELSE LET p   == raw[1]
           IN  [order       |-> IF Has(p, "order") THEN p.order ELSE fresh.order,
                selection   |-> NewSet(IF Has(p, "selection") THEN p.selection
                                       ELSE <<>>),
                found       |-> IF Has(p, "found") THEN p.found ELSE <<>>,
                mistakes    |-> IF Has(p, "mistakes") THEN p.mistakes ELSE 0,
                mistakesLog |-> IF Has(p, "mistakesLog") THEN p.mistakesLog
                                ELSE <<>>,
                guesses     |-> IF Has(p, "guesses") THEN p.guesses ELSE <<>>,
                locked      |-> NotNot(raw, "locked"),
                failed      |-> NotNot(raw, "failed")]

\* The session fields after the defaults of loadPuzzle and restoreIfAny():
\* Array.isArray / Number.isInteger hold of a field iff p has it; locked and
\* failed are coerced with !!; an exception leaves the defaults (no field is
\* assigned before the first read of p throws).
restoreIfAny(store, pid) ==
  LET fresh == [order |-> <<>>, selection |-> <<>>, found |-> <<>>,
                mistakes |-> 0, mistakesLog |-> <<>>, guesses |-> <<>>,
                locked |-> FALSE, failed |-> FALSE]
      raw   == store[StorageKey(pid)]
  IN  IF pid = NoId \/ raw = NoItem THEN fresh
      ELSE IF Throws(raw) THEN fresh
      ELSE LET p   == raw[1]
               lck == NotNot(raw, "locked")
               mis == IF Has(p, "mistakes") THEN p.mistakes ELSE 0
           IN  [order       |-> IF Has(p, "order") THEN p.order ELSE fresh.order,
                selection   |-> NewSet(IF Has(p, "selection") THEN p.selection
                                       ELSE <<>>),
                found       |-> IF Has(p, "found") THEN p.found ELSE <<>>,
                mistakes    |-> mis,
                mistakesLog |-> IF Has(p, "mistakesLog") THEN p.mistakesLog
                                ELSE <<>>,
                guesses     |-> IF Has(p, "guesses") THEN p.guesses ELSE <<>>,
                locked      |-> lck,
                failed      |-> IF Undefined(raw, "failed") /\ lck
                                THEN mis >= MAX_MISTAKES
                                ELSE NotNot(raw, "failed")]

(* ---------- getPuzzleStatus ---------- *)

\* getPuzzleStatus testing found before mistakes
getPuzzleStatus_FoundFirst(store, pid) ==
  LET raw == store[StorageKey(pid)]
  IN  IF raw = NoItem THEN "unsolved"
      ELSE IF Throws(raw) THEN "unsolved"
      ELSE LET obj == raw[1]
           IN  IF NotNot(raw, "locked")
               THEN IF Has(obj, "found") /\ Len(obj.found) = 4 THEN "solved"
                    ELSE IF Has(obj, "mistakes") /\ obj.mistakes >= MAX_MISTAKES
                    THEN "failed"
                    ELSE "unsolved"
               ELSE "unsolved"

\* The status the home screen shows on the tile of puzzle pid
getPuzzleStatus(store, pid) ==
  LET raw == store[StorageKey(pid)]
  IN  IF raw = NoItem THEN "unsolved"
      ELSE IF Throws(raw) THEN "unsolved"
      ELSE LET obj == raw[1]
           IN  IF NotNot(raw, "locked")
               THEN IF Has(obj, "mistakes") /\ obj.mistakes >= MAX_MISTAKES
                    THEN "failed"
                    ELSE IF Has(obj, "found") /\ Len(obj.found) = 4 THEN "solved"
                    ELSE "unsolved"
               ELSE "unsolved"

(* ---------- Handlers ---------- *)

\* The session after loadPuzzle(allPuzzles[i]) and showGame(): the defaults,
\* restoreIfAny() and buildBoard()
loadPuzzle(pid) ==
  /\ LET r == restoreIfAny(storage, pid)
     IN  /\ id' = pid
         /\ order' \in BoardOrders(pid, r.order, r.found, r.locked)
         /\ selection' = BoardSelection(pid, r.selection, r.order, r.found, r.locked)
         /\ found' = r.found
         /\ mistakes' = r.mistakes
         /\ mistakesLog' = r.mistakesLog
         /\ guesses' = r.guesses
         /\ locked' = r.locked
         /\ failed' = r.failed
  /\ toasts' = <<>>
  /\ UNCHANGED storage

\* The tile of puzzle pid on the home screen is clicked: loadPuzzle(pid) and
\* then showGame(), which builds the board.  In one behaviour the player
\* stays with one puzzle and re-opens only that one.
LoadPuzzle(pid) ==
  /\ id = NoId \/ id = pid
  /\ loadPuzzle(pid)

\* Back on the home screen, the tile of another puzzle is clicked
SwitchPuzzle(pid) ==
  /\ id # NoId /\ id # pid
  /\ loadPuzzle(pid)

\* toggle with the size test off by one: a fifth card is added
ToggleSelection_OffByOne(sel, i) ==
  IF Includes(sel, i) THEN SetDelete(sel, i)
  ELSE IF Len(sel) > 4 THEN sel
  ELSE Append(sel, i)

\* state.selection after toggle(i) on an unlocked session
ToggleSelection(sel, i) ==
  IF Includes(sel, i) THEN SetDelete(sel, i)
  ELSE IF Len(sel) >= 4 THEN sel
  ELSE Append(sel, i)

ToggleToasts(lck, sel, i) ==
  IF lck THEN <<"Puzzle is finished.">>
  ELSE IF ~Includes(sel, i) /\ Len(sel) >= 4 THEN <<"Maximum 4 words">>
  ELSE <<>>

\* The cards the player clicks: a card on the board that is the last one
\* selected, or extends the selection towards one of Picks, or is a fifth
\* card.  A locked board shows no card; the handler is then called for a card
\* of the first pick.
Clickable(i) ==
  /\ i \in PoolIndices(id)
  /\ IF locked THEN Includes(PickList(id)[1], i)
     ELSE /\ Includes(order, i)
          /\ \/ selection # <<>> /\ selection[Len(selection)] = i
             \/ Len(selection) >= 4 /\ ~Includes(selection, i)
             \/ \E p \in Picks(id) : IsPrefix(Append(selection, i), p)

\* The session after toggle(i)
ToggleCard(i) ==
  /\ selection' = IF locked THEN selection ELSE ToggleSelection(selection, i)
  /\ toasts' = ToggleToasts(locked, selection, i)
  /\ UNCHANGED << id, order, found, mistakes, mistakesLog, guesses, locked,
                  failed, storage >>

toggle(i) ==
  /\ id # NoId
  /\ Clickable(i)
  /\ ToggleCard(i)

\* The guesses a player who moves between puzzles makes, in this order, as
\* positions of PickList: Puzzle 1 is solved, Puzzle 2 is failed, and
\* Puzzle 7 is solved after a mistake and the guess with one twin
PlayedList(pid) ==
  CASE pid = Puzzle1.id -> <<1, 2, 3, 4>>
    [] pid = Puzzle2.id -> <<3, 5, 6, 7>>
    [] pid = Puzzle7.id -> <<4, 1, 3, 6, 7>>
    [] OTHER -> <<>>

PlayedTable ==
  [pid \in OpenedIds |->
     [n \in DOMAIN PlayedList(pid) |-> PickList(pid)[PlayedList(pid)[n]]]]

\* The cards that player clicks: the next card of the next guess
PlayedNext(i) ==
  /\ ~locked
  /\ Includes(order, i)
  /\ Len(guesses) + 1 \in DOMAIN PlayedTable[id]
  /\ IsPrefix(Append(selection, i), PlayedTable[id][Len(guesses) + 1])

togglePlayed(i) ==
  /\ id # NoId
  /\ PlayedNext(i)
  /\ ToggleCard(i)

deselectAll ==
  /\ id # NoId
  /\ selection' = IF locked THEN selection ELSE <<>>
  /\ toasts' = IF locked THEN <<"Puzzle is finished.">> ELSE <<>>
  /\ UNCHANGED << id, order, found, mistakes, mistakesLog, guesses, locked,
                  failed, storage >>

\* shuffleBoard without its test of state.locked
ShuffledOrders_Unguarded(pid, ord, fnd, lck) ==
  UNION {BoardOrders(pid, o, fnd, lck) : o \in shuffle(ord)}

\* shuffleBoard dealing the whole pool again
ShuffledOrders_Redealt(pid, ord, fnd, lck) ==
  IF lck THEN {ord} ELSE shuffle(Ascending(PoolIndices(pid)))

\* state.order after shuffleBoard(): shuffle and buildBoard
ShuffledOrders(pid, ord, fnd, lck) ==
  IF lck THEN {ord}
  ELSE UNION {BoardOrders(pid, o, fnd, lck) : o \in shuffle(ord)}

\* The player presses the shuffle button with no card selected, or with four
\* cards selected before the first guess
ShufflePressed ==
  \/ locked
  \/ selection = <<>>
  \/ Len(selection) = 4 /\ guesses = <<>>

\* The shuffle button: shuffleBoard() and then saveSilently()
shuffleBoard ==
  /\ id # NoId
  /\ ShufflePressed
  /\ order' \in ShuffledOrders(id, order, found, locked)
  /\ selection' = IF locked THEN selection
                  ELSE BoardSelection(id, selection, order, found, locked)
  /\ toasts' = IF locked THEN <<"Puzzle is finished.">> ELSE <<>>
  /\ storage' = saveSilently(storage, id, order', selection', found, mistakes,
                             mistakesLog, guesses, locked, failed)
  /\ UNCHANGED << id, found, mistakes, mistakesLog, guesses, locked, failed >>

\* resetPuzzle without its call of removeItem
removeItem_Kept(store, pid) == store

\* removeItem replaced by localStorage.clear()
removeItem_Clear(store, pid) == [k \in DOMAIN store |-> NoItem]

\* localStorage after localStorage.removeItem(STORAGE_PREFIX + pid)
removeItem(store, pid) == [store EXCEPT ![StorageKey(pid)] = NoItem]

resetPuzzle ==
  /\ id # NoId
  /\ storage' = removeItem(storage, id)
  /\ order' \in BoardOrders(id, <<>>, <<>>, FALSE)
  /\ selection' = <<>>
  /\ found' = <<>>
  /\ mistakes' = 0
  /\ mistakesLog' = <<>>
  /\ guesses' = <<>>
  /\ locked' = FALSE
  /\ failed' = FALSE
  /\ toasts' = <<"Puzzle reset!">>
  /\ UNCHANGED id

(* ---------- submit ---------- *)

\* [...state.selection].map(i => pool()[i])
WordsSel(pid, sel) == [k \in 1..Len(sel) |-> WordAt(pid, sel[k])]

\* state.mistakesLog.some(entry => entry.words.slice().sort().join(',') === sortedWords)
alreadyTried(mlog, wordsSel) ==
  \E k \in DOMAIN mlog : SortedKey(mlog[k].words) = SortedKey(wordsSel)

\* g.words.every(w => wordsSel.includes(w))
EveryWordIn(g, wordsSel) ==
  \A j \in DOMAIN g.words : Includes(wordsSel, g.words[j])

\* A match that compares the group's word list with the selected words in order
MatchIndex_Ordered(groups, wordsSel) ==
  IF \E k \in DOMAIN groups : groups[k].words = wordsSel
  THEN CHOOSE k \in DOMAIN groups : groups[k].words = wordsSel
  ELSE 0

\* state.data.groups.find(...): the position of the first such group, 0 for none
MatchIndex(groups, wordsSel) ==
  IF \E k \in DOMAIN groups : EveryWordIn(groups[k], wordsSel)
  THEN CHOOSE k \in DOMAIN groups :
         /\ EveryWordIn(groups[k], wordsSel)
         /\ \A j \in 1..(k - 1) : ~EveryWordIn(groups[j], wordsSel)
  ELSE 0

\* The hex value of the group in the place of its colour name
GroupColorTag_Hex(g) == g.color

\* group.colorName || COLOR_REVERSE[group.color] || 'gray'
GroupColorTag(g) ==
  IF g.colorName # "" THEN g.colorName
  ELSE IF g.color \in DOMAIN COLOR_REVERSE THEN COLOR_REVERSE[g.color]
  ELSE "gray"

\* The colour of the first group that includes the word, 'gray' without one
WordColor(groups, w) ==
  IF \E k \in DOMAIN groups : Includes(groups[k].words, w)
  THEN GroupColorTag(groups[CHOOSE k \in DOMAIN groups :
                              /\ Includes(groups[k].words, w)
                              /\ \A j \in 1..(k - 1) : ~Includes(groups[j].words, w)])
  ELSE "gray"

guessColors(groups, wordsSel) ==
  [k \in DOMAIN wordsSel |-> WordColor(groups, wordsSel[k])]

GuessEntry(groups, wordsSel) ==
  [words |-> wordsSel, colors |-> guessColors(groups, wordsSel),
   correct |-> MatchIndex(groups, wordsSel) # 0]

\* The entry pushed on state.found for a group
FoundEntry(g) ==
  [category |-> g.category, words |-> g.words, color |-> ColorValue(g.color)]

\* state.order.filter(i => !foundSet.has(words[i]))
OrderWithout(pid, ord, g) ==
  LET foundSet == Range(g.words)
  IN  FilterIn(ord, {i \in Range(ord) : WordAt(pid, i) \notin foundSet})

\* The entry pushed on state.mistakesLog; its ts (Date.now()) is never read
\* and is left out
MistakeEntry(wordsSel) == [words |-> wordsSel]

\* Math.max in the place of Math.min
MistakesAfter_Max(mis) ==
  IF mis + 1 > MAX_MISTAKES THEN mis + 1 ELSE MAX_MISTAKES

\* Math.min(MAX_MISTAKES, state.mistakes + 1)
MistakesAfter(mis) ==
  IF mis + 1 < MAX_MISTAKES THEN mis + 1 ELSE MAX_MISTAKES

\* oneAway asking for 4 words of the group
oneAway_Four(groups, wordsSel) ==
  \E k \in DOMAIN groups :
    Len(FilterIn(groups[k].words, Range(wordsSel))) = 4

\* g.words.filter(w => wordsSel.includes(w)).length === 3, for some group
oneAway(groups, wordsSel) ==
  \E k \in DOMAIN groups :
    Len(FilterIn(groups[k].words, Range(wordsSel))) = 3

\* The groups revealAllAndLock pushes: not every word is a found word
RECURSIVE Unsolved(_, _)
Unsolved(groups, foundWords) ==
  IF groups = <<>> THEN <<>>
  ELSE IF Range(Head(groups).words) \subseteq foundWords
       THEN Unsolved(Tail(groups), foundWords)
       ELSE <<FoundEntry(Head(groups))>> \o Unsolved(Tail(groups), foundWords)

\* A reveal that pushes the unsolved groups last to first
revealAllAndLock_Reversed(groups, fnd) ==
  fnd \o Reverse(Unsolved(groups, FoundWords(fnd)))

\* state.found after revealAllAndLock()
revealAllAndLock(groups, fnd) == fnd \o Unsolved(groups, FoundWords(fnd))

\* A match branch that never locks
LockedAfterMatch_Kept(fnd, lck) == lck

\* state.locked after the match branch of submit
LockedAfterMatch(fnd, lck) == IF Len(fnd) = 4 THEN TRUE ELSE lck

\* A match branch that sets failed to true on the 4th group
FailedAfterMatch_Inverted(fnd, fld) == IF Len(fnd) = 4 THEN TRUE ELSE fld

\* state.failed after the match branch of submit
FailedAfterMatch(fnd, fld) == IF Len(fnd) = 4 THEN FALSE ELSE fld

\* The budget test off by one: out of mistakes at the 3rd
OutOfMistakes_OffByOne(mis) == mis >= MAX_MISTAKES - 1

\* state.mistakes >= MAX_MISTAKES after the mistake was counted
OutOfMistakes(mis) == mis >= MAX_MISTAKES

\* submit without its test of the selection size
SubmitRejected_NoSizeCheck ==
  \/ locked
  \/ alreadyTried(mistakesLog, WordsSel(id, selection))

\* The early returns of submit: finished, not four cards, already tried
SubmitRejected ==
  \/ locked
  \/ Len(selection) # 4
  \/ alreadyTried(mistakesLog, WordsSel(id, selection))

\* The toast of the early return taken
RejectToasts ==
  IF locked THEN <<"Puzzle is finished.">>
  ELSE IF Len(selection) # 4 THEN <<"Pick exactly 4">>
  ELSE <<"Already tried that...">>

\* submit, the branch of a match with the group at position m
SubmitMatch(groups, wordsSel, m) ==
  LET found1  == Append(found, FoundEntry(groups[m]))
      order1  == OrderWithout(id, order, groups[m])
      locked1 == LockedAfterMatch(found1, locked)
      failed1 == FailedAfterMatch(found1, failed)
  IN  /\ guesses' = Append(guesses, GuessEntry(groups, wordsSel))
      /\ found' = found1
      /\ order' \in BoardOrders(id, order1, found1, locked1)
      /\ selection' = BoardSelection(id, <<>>, order1, found1, locked1)
      /\ locked' = locked1
      /\ failed' = failed1
      /\ toasts' = IF Len(found1) = 4 THEN <<"Correct", "Solved!">>
                   ELSE <<"Correct">>
      /\ UNCHANGED << mistakes, mistakesLog >>

\* submit, the branch without a match
SubmitMistake(groups, wordsSel) ==
  LET mistakes1 == MistakesAfter(mistakes)
      hint      == IF oneAway(groups, wordsSel) THEN "One away..."
                   ELSE "Not a group"
      out       == OutOfMistakes(mistakes1)
  IN  /\ guesses' = Append(guesses, GuessEntry(groups, wordsSel))
      /\ mistakesLog' = Append(mistakesLog, MistakeEntry(wordsSel))
      /\ mistakes' = mistakes1
      /\ found' = IF out THEN revealAllAndLock(groups, found) ELSE found
      /\ locked' = IF out THEN TRUE ELSE locked
      /\ failed' = IF out THEN TRUE ELSE failed
      /\ selection' = IF out THEN <<>> ELSE selection
      /\ toasts' = IF out THEN <<hint, "Max mistakes reached">> ELSE <<hint>>
      /\ UNCHANGED order

submit ==
  /\ id # NoId
  /\ IF SubmitRejected
     THEN /\ toasts' = RejectToasts
          /\ UNCHANGED << order, selection, found, mistakes, mistakesLog,
                          guesses, locked, failed, storage >>
     ELSE LET groups   == GroupsOf(id)
              wordsSel == WordsSel(id, selection)
              m        == MatchIndex(groups, wordsSel)
          IN  /\ IF m # 0 THEN SubmitMatch(groups, wordsSel, m)
                 ELSE SubmitMistake(groups, wordsSel)
              /\ storage' = saveSilently(storage, id, order', selection', found',
                                         mistakes', mistakesLog', guesses',
                                         locked', failed')
  /\ UNCHANGED id

(* ---------- Specification ---------- *)

Next ==
  \/ \E pid \in OpenedIds : LoadPuzzle(pid)
  \/ \E i \in 0..15 : toggle(i)
  \/ deselectAll
  \/ shuffleBoard
  \/ submit
  \/ resetPuzzle

Spec == Init /\ [][Next]_vars

\* The player moves between the puzzles: every handler, and the tiles of the
\* other puzzles
NextSwitch ==
  \/ \E pid \in VisitedIds : LoadPuzzle(pid)
  \/ \E pid \in VisitedIds : SwitchPuzzle(pid)
  \/ \E i \in 0..15 : togglePlayed(i)
  \/ deselectAll
  \/ shuffleBoard
  \/ submit
  \/ resetPuzzle

SpecSwitch == Init /\ [][NextSwitch]_vars

(* ---------- Stored items the session did not write ---------- *)

\* The puzzle that is opened over such an item
RestoredId == Puzzle2.id

SnapshotFields ==
  {"order", "selection", "found", "mistakes", "mistakesLog", "guesses",
   "locked", "failed"}

\* Snapshots with every field of the expected shape: one group found or
\* none, a number of mistakes below, at and above MAX_MISTAKES, locked or
\* not, failed or not
ShapedSnapshots ==
  LET groups == GroupsOf(RestoredId)
      fnd    == <<FoundEntry(groups[4])>>
      miss   == WordsSel(RestoredId, <<0, 4, 8, 12>>)
  IN  [order       : {ActiveIndices(RestoredId, fnd)},
       selection   : {<<0, 1>>},
       found       : {<<>>, fnd},
       mistakes    : {0, 3, 4, 5},
       mistakesLog : {<<MistakeEntry(miss)>>},
       guesses     : {<<GuessEntry(groups, miss)>>},
       locked      : BOOLEAN,
       failed      : BOOLEAN]

\* What a field can be instead: undefined (absent), null, or a string
OtherShapes == {"undefined", "null", "string"}

\* The stored item for snapshot v whose fields in DOMAIN dev are replaced
StoredItem(v, dev) ==
  LET odd  == {f \in DOMAIN dev : dev[f] # "undefined"}
      kept == ({"id"} \cup SnapshotFields) \ DOMAIN dev
      p    == [f \in kept |-> IF f = "id" THEN RestoredId ELSE v[f]]
  IN  IF odd = {} THEN <<p>> ELSE <<p, [f \in odd |-> dev[f]]>>

\* A text that does not parse, or parses to null
BrokenItem == <<[id |-> RestoredId], [json |-> "unparsable"]>>

ForeignItems ==
  {BrokenItem} \cup
  UNION {UNION {{StoredItem(v, dev) : dev \in [D -> OtherShapes]} :
                  D \in {E \in SUBSET SnapshotFields :
                           Cardinality(E) <= MaxOddFields}} :
           v \in ShapedSnapshots}

InitRestore ==
  /\ id = NoId
  /\ order = <<>>
  /\ selection = <<>>
  /\ found = <<>>
  /\ mistakes = 0
  /\ mistakesLog = <<>>
  /\ guesses = <<>>
  /\ locked = FALSE
  /\ failed = FALSE
  /\ \E it \in ForeignItems :
       storage = [k \in StorageKeys |->
                    IF k = StorageKey(RestoredId) THEN it ELSE NoItem]
  /\ toasts = <<>>

NextRestore == LoadPuzzle(RestoredId)

SpecRestore == InitRestore /\ [][NextRestore]_vars

(* ---------- Vocabulary of the properties ---------- *)

Groups == GroupsOf(id)

SelectedWords == WordsSel(id, selection)

\* The catalog position of the group a found entry shows, 0 for none
GroupOfEntry(e) ==
  IF \E k \in DOMAIN Groups : /\ Groups[k].category = e.category
                              /\ Groups[k].words = e.words
  THEN CHOOSE k \in DOMAIN Groups : /\ Groups[k].category = e.category
                                   /\ Groups[k].words = e.words
  ELSE 0

\* Some entry of found shows group k
IsFound(k) == \E j \in DOMAIN found : GroupOfEntry(found[j]) = k

\* The selected words are, as a set, the words of group k
SelectionIsGroup(k) == Range(SelectedWords) = Range(Groups[k].words)

\* Every word of group k is among the selected words
SelectionCoversGroup(k) == Range(Groups[k].words) \subseteq Range(SelectedWords)

\* The selected words are, as a set, the words of an entry of mistakesLog
SelectionWasTried ==
  \E k \in DOMAIN mistakesLog : Range(mistakesLog[k].words) = Range(SelectedWords)

SessionUnchanged == UNCHANGED session

AnyToggle == \E i \in 0..15 : toggle(i)

(* ---------- Properties ---------- *)

\* C1: in every reachable session state, locked is true if and only if
\* found holds 4 groups or mistakes has reached 4.
C1_LockedIffFinished ==
  locked <=> (Len(found) = 4 \/ mistakes >= 4)

\* A solved session with three mistakes, re-opened from its own snapshot.
C1_Witness ==
  /\ locked /\ Len(found) = 4 /\ mistakes = 3
  /\ toasts = <<>>
  /\ storage[StorageKey(id)] # NoItem

\* C2 as stated: whenever found holds 4 groups, failed is false.
C2_FoundFourNeverFailed ==
  Len(found) = 4 => ~failed

\* C2, amended: whenever found holds 4 groups and fewer than 4 mistakes were
\* made, failed is false.
C2_SolvedNeverFailed ==
  (Len(found) = 4 /\ mistakes < 4) => ~failed

\* A session solved after two mistakes.
C2_Witness ==
  Len(found) = 4 /\ mistakes = 2 /\ ~failed

\* C3: the submit that records the 4th mistake leaves the session locked and
\* failed, with found holding every group once: the entries it held before,
\* unchanged and in place, then the groups that were not found, in catalog
\* order; the selection is empty and guesses gained the one entry of the guess.
C3_FourthMistakeReveals ==
  [][(submit /\ Len(mistakesLog) = 3 /\ Len(mistakesLog') = 4) =>
       /\ locked' /\ failed'
       /\ Len(found') = 4
       /\ SubSeq(found', 1, Len(found)) = found
       /\ {GroupOfEntry(found'[k]) : k \in 1..4} = 1..4
       /\ \A a, b \in (Len(found) + 1)..4 :
            a < b => GroupOfEntry(found'[a]) < GroupOfEntry(found'[b])
       /\ \A k \in 1..4 : found'[k] = FoundEntry(Groups[GroupOfEntry(found'[k])])
       /\ selection' = <<>>
       /\ Len(guesses') = Len(guesses) + 1
       /\ SubSeq(guesses', 1, Len(guesses)) = guesses
       /\ guesses'[Len(guesses')].words = SelectedWords
       /\ ~guesses'[Len(guesses')].correct
    ]_vars

\* The 4th mistake was just made after groups 4 and 2 were solved in that order.
C3_Witness ==
  /\ locked /\ failed /\ Len(mistakesLog) = 4
  /\ toasts # <<>> /\ toasts[Len(toasts)] = "Max mistakes reached"
  /\ Len(found) = 4
  /\ GroupOfEntry(found[1]) = 4 /\ GroupOfEntry(found[2]) = 2
  /\ GroupOfEntry(found[3]) = 1 /\ GroupOfEntry(found[4]) = 3

\* C4: the submit that finds the 4th group leaves the session locked and not
\* failed, whatever the number of mistakes made before.
C4_FourthGroupSolves ==
  [][(/\ submit
      /\ Len(found) = 3 /\ Len(found') = 4
      /\ Len(guesses') = Len(guesses) + 1
      /\ guesses'[Len(guesses')].correct) =>
       (locked' /\ ~failed' /\ mistakes' = mistakes)
    ]_vars

\* The 4th group was just found after three mistakes, one of them made after
\* a correct guess.
C4_Witness ==
  /\ locked /\ ~failed /\ mistakes = 3
  /\ toasts = <<"Correct", "Solved!">>
  /\ \E a, b \in DOMAIN guesses : a < b /\ guesses[a].correct /\ ~guesses[b].correct

\* C5: in an unlocked session, submitting four cards whose words are exactly
\* the words of a group not in found appends that group, alone, to found,
\* removes exactly the four selected indices from order, empties the
\* selection and leaves mistakes and mistakesLog unchanged.
C5_ExactGroupIsFound ==
  [][\A k \in 1..4 :
       (/\ submit
        /\ ~locked /\ Len(selection) = 4
        /\ SelectionIsGroup(k) /\ ~IsFound(k)) =>
         /\ found' = Append(found, FoundEntry(Groups[k]))
         /\ Range(order') = Range(order) \ Range(selection)
         /\ Len(order') = Len(order) - 4
         /\ selection' = <<>>
         /\ mistakes' = mistakes
         /\ mistakesLog' = mistakesLog
    ]_vars

\* In Puzzle 7 the group with the twin word was just found by selecting its
\* four cards, as the second group.
C5_Witness ==
  /\ id = Puzzle7.id
  /\ toasts = <<"Correct">>
  /\ Len(found) = 2 /\ GroupOfEntry(found[2]) = 3
  /\ Range(guesses[Len(guesses)].words) = Range(Groups[3].words)
  /\ Len(order) = 8

C7_RepeatRejected ==
  [][(/\ submit
      /\ ~locked /\ Len(selection) = 4
      /\ SelectionWasTried) =>
       /\ SessionUnchanged
       /\ storage' = storage
       /\ toasts' = <<"Already tried that...">>
    ]_vars

\* A guess was just rejected as already tried although no entry of
\* mistakesLog lists its words in the click order of the selection.
C7_Witness ==
  /\ toasts = <<"Already tried that...">>
  /\ Len(selection) = 4
  /\ \A k \in DOMAIN mistakesLog : mistakesLog[k].words # SelectedWords
  /\ SelectionWasTried

\* C8: the selection never holds more than 4 indices; toggle on an unselected
\* index while 4 are selected changes nothing of the session and emits
\* 'Maximum 4 words'; toggle on a selected index removes it, and only it.
C8_AtMostFourSelected ==
  [][/\ Len(selection') <= 4
     /\ Cardinality(Range(selection')) = Len(selection')
     /\ \A i \in 0..15 :
          (/\ ~locked
           /\ Includes(selection, i) \/ Len(selection) = 4
           /\ toggle(i)) =>
            IF Includes(selection, i)
            THEN /\ Range(selection') = Range(selection) \ {i}
                 /\ Len(selection') = Len(selection) - 1
            ELSE SessionUnchanged /\ toasts' = <<"Maximum 4 words">>
    ]_vars

\* A fifth card was just clicked with four cards selected.
C8_Witness ==
  Len(selection) = 4 /\ toasts = <<"Maximum 4 words">>

\* C9: submit with 0, 1, 2 or 3 cards selected changes nothing of the session.
C9_ShortSubmitNoChange ==
  [][(submit /\ Len(selection) < 4) => SessionUnchanged]_vars

\* Submit was just pressed with three cards selected, after a mistake.
C9_Witness ==
  /\ toasts = <<"Pick exactly 4">>
  /\ Len(selection) = 3 /\ mistakes = 1

\* C10: a locked session has an empty selection; toggle, deselectAll,
\* shuffleBoard and submit change nothing of it; and every step but
\* resetPuzzle leaves it locked, with failed as it was.
C10_LockedIsFinal ==
  [][locked =>
       /\ selection = <<>>
       /\ (AnyToggle \/ deselectAll \/ shuffleBoard \/ submit) => SessionUnchanged
       /\ ~resetPuzzle => (locked' /\ failed' = failed)
    ]_vars

\* A handler was just called on a failed session whose board still held cards.
C10_Witness ==
  /\ locked /\ failed /\ order # <<>>
  /\ toasts = <<"Puzzle is finished.">>

\* C11: resetPuzzle, called on a playing, solved or failed session, leaves
\* mistakes = 0, found, mistakesLog, guesses and the selection empty, locked and
\* failed false, the 16 cards of the puzzle on the board, and no snapshot
\* stored for the puzzle.
C11_ResetIsFresh ==
  [][(id # NoId /\ toasts' = <<"Puzzle reset!">>) =>
       /\ id' = id
       /\ mistakes' = 0
       /\ found' = <<>> /\ mistakesLog' = <<>> /\ guesses' = <<>>
       /\ selection' = <<>>
       /\ ~locked' /\ ~failed'
       /\ Range(order') = PoolIndices(id) /\ Len(order') = 16
       /\ storage'[StorageKey(id)] = NoItem
       /\ restoreIfAny(storage', id).found = <<>>
       /\ restoreIfAny(storage', id).mistakes = 0
       /\ ~restoreIfAny(storage', id).locked
    ]_vars

\* Puzzle 2 was just reset; its snapshot is gone and the board is dealt anew.
C11_Witness ==
  /\ id = Puzzle2.id
  /\ toasts = <<"Puzzle reset!">>
  /\ storage[StorageKey(id)] = NoItem
  /\ Len(order) = 16 /\ mistakes = 0 /\ ~locked

\* C12: shuffleBoard on an unlocked session leaves in order the same indices,
\* each once, and does not change the selection, found, mistakes, mistakesLog
\* or guesses; on a locked session it changes nothing of the session.
C12_ShuffleKeepsCards ==
  [][shuffleBoard =>
       /\ Range(order') = Range(order)
       /\ Len(order') = Len(order)
       /\ Cardinality(Range(order')) = Len(order')
       /\ selection' = selection
       /\ found' = found
       /\ mistakes' = mistakes /\ mistakesLog' = mistakesLog
       /\ guesses' = guesses
       /\ locked' = locked /\ failed' = failed
       /\ locked => SessionUnchanged
    ]_vars

\* A board of 8 cards, two groups found and one mistake made, was shuffled
\* and saved with no card selected; the cards are not in ascending order.
C12_Witness ==
  /\ ~locked /\ Len(found) = 2 /\ mistakes = 1
  /\ Len(order) = 8 /\ order # Ascending(Range(order))
  /\ toasts = <<>>
  /\ storage[StorageKey(id)] # NoItem
  /\ storage[StorageKey(id)][1].order = order
  /\ storage[StorageKey(id)][1].selection = <<>>
  /\ guesses[Len(guesses)].correct = FALSE

\* The words of a puzzle, group after group
PuzzleWords(p) == FlatWords(p.groups)

\* toUpperCase leaves the word as it is
IsUpperCase(w) == ToUpperCase(w) = w

\* The shape of a normalised puzzle: 4 groups of 4 pairwise distinct
\* uppercase words, 16 distinct words in all
WellFormedPuzzle(p) ==
  /\ Len(p.groups) = 4
  /\ \A k \in DOMAIN p.groups :
       /\ Len(p.groups[k].words) = 4
       /\ Cardinality(Range(p.groups[k].words)) = 4
       /\ \A j \in DOMAIN p.groups[k].words : IsUpperCase(p.groups[k].words[j])
  /\ Cardinality(Range(PuzzleWords(p))) = 16

\* C13: every puzzle of the catalog, once loadPuzzle has normalised it, has
\* exactly 4 groups, each with exactly 4 pairwise distinct uppercase words,
\* and the 16 words of the puzzle are pairwise distinct.
C13_CatalogWellFormed ==
  \A n \in DOMAIN SAMPLES :
    id = SAMPLES[n].id => WellFormedPuzzle(normalizePuzzle(SAMPLES[n]))

\* C14: a submit of 4 cards on an unlocked session that is accepted as a guess
\* judges the guess correct if and only if the set of the selected words is
\* the word set of a group (neither more nor fewer words), whatever the order
\* of the clicks; and the selected words are the word set of at most one group.
C14_CorrectIffExactGroup ==
  [][(/\ submit
      /\ ~locked /\ Len(selection) = 4
      /\ Len(guesses') = Len(guesses) + 1) =>
       /\ guesses'[Len(guesses')].correct <=>
            \E k \in DOMAIN Groups : SelectionIsGroup(k)
       /\ Cardinality({k \in DOMAIN Groups : SelectionIsGroup(k)}) <= 1
    ]_vars

\* The progress of a session: the fields that say how far the puzzle is played
ProgressOf(r) ==
  <<r.found, r.mistakes, r.mistakesLog, r.guesses, r.locked, r.failed>>

LiveProgress == ProgressOf([found |-> found, mistakes |-> mistakes,
                            mistakesLog |-> mistakesLog, guesses |-> guesses,
                            locked |-> locked, failed |-> failed])

\* The progress loadPuzzle would restore for puzzle pid
StoredProgress(store, pid) == ProgressOf(restoreIfAny(store, pid))

\* C15: progress survives leaving and re-opening.  After every step the
\* progress of the open puzzle is the one a reload would restore; a step that
\* opens another puzzle leaves, as the stored progress of the puzzle left, the
\* progress it had, and gives the puzzle opened its stored progress; and no
\* step changes the stored progress of a puzzle that is not open.
C15_ProgressSurvives ==
  [][/\ id' # NoId => LiveProgress' = StoredProgress(storage', id')
     /\ (id # NoId /\ id' # id) =>
          /\ StoredProgress(storage', id) = LiveProgress
          /\ LiveProgress' = StoredProgress(storage, id')
     /\ \A q \in PuzzleIds \ {id, id'} :
          StoredProgress(storage', q) = StoredProgress(storage, q)
    ]_vars

\* The failed Puzzle 2 was just opened while Puzzle 7 is stored solved with
\* one mistake.
C15_Witness ==
  /\ id = Puzzle2.id /\ locked /\ failed /\ Len(guesses) = 4
  /\ toasts = <<>>
  /\ storage[StorageKey(Puzzle7.id)] # NoItem
  /\ storage[StorageKey(Puzzle7.id)][1].locked
  /\ storage[StorageKey(Puzzle7.id)][1].mistakes = 1

\* C16: the snapshots are independent.  A step taken while puzzle A is open,
\* resetPuzzle included, leaves the stored item of every other puzzle as it
\* was.
C16_SnapshotsIndependent ==
  [][\A q \in PuzzleIds :
       q # id => storage'[StorageKey(q)] = storage[StorageKey(q)]
    ]_vars

\* Puzzle 7 was just reset while the snapshot of the failed Puzzle 2 is
\* stored.
C16_Witness ==
  /\ id = Puzzle7.id
  /\ toasts = <<"Puzzle reset!">>
  /\ storage[StorageKey(Puzzle7.id)] = NoItem
  /\ storage[StorageKey(Puzzle2.id)] # NoItem
  /\ storage[StorageKey(Puzzle2.id)][1].failed

\* The status of a session by its locked and failed fields
SessionStatus(lck, fld) ==
  IF lck /\ fld THEN "failed" ELSE IF lck THEN "solved" ELSE "unsolved"

\* C17: for every stored snapshot, getPuzzleStatus returns 'failed' if and
\* only if the session that wrote it was locked with failed true, 'solved' if
\* and only if it was locked with failed false, and 'unsolved' otherwise; with
\* no snapshot it returns 'unsolved'; and the status of the open puzzle is the
\* status of the session in memory.
C17_StatusAgrees ==
  /\ \A q \in PuzzleIds :
       LET raw == storage[StorageKey(q)]
       IN  getPuzzleStatus(storage, q) =
             IF raw = NoItem THEN "unsolved"
             ELSE SessionStatus(raw[1].locked, raw[1].failed)
  /\ id # NoId => getPuzzleStatus(storage, id) = SessionStatus(locked, failed)

\* The tile of the open puzzle shows 'failed' while found holds all 4 groups.
C17_Witness ==
  /\ id # NoId
  /\ getPuzzleStatus(storage, id) = "failed"
  /\ Len(storage[StorageKey(id)][1].found) = 4
  /\ locked /\ failed

\* The number of the 4 words of group k that are among the selected words
WordsOfGroupSelected(k) ==
  Cardinality({j \in DOMAIN Groups[k].words :
                 Includes(SelectedWords, Groups[k].words[j])})

C19_FailedIffOutOfMistakes ==
  /\ failed => locked
  /\ failed <=> mistakes >= MAX_MISTAKES

\* A failed session, restored from its snapshot when the puzzle was opened.
C19_Witness ==
  /\ failed /\ locked /\ mistakes = MAX_MISTAKES
  /\ toasts = <<>>
  /\ storage[StorageKey(id)] # NoItem
  /\ storage[StorageKey(id)][1].failed

\* The snapshot saveSilently would write for the session in memory
LiveSnapshot ==
  <<Payload(id, order, selection, found, mistakes, mistakesLog, guesses,
            locked, failed)>>

\* C20: after every toggle, deselectAll, shuffleBoard or submit that changes
\* the session, the snapshot stored for the puzzle equals the session in
\* memory: order, selection, found, mistakes, mistakesLog, guesses, locked
\* and failed.
C20_SnapshotFollowsSession ==
  [][((AnyToggle \/ deselectAll \/ shuffleBoard \/ submit)
       /\ session' # session) =>
         storage'[StorageKey(id')] = LiveSnapshot'
    ]_vars

\* C21: after every accepted submit, a match or a recorded mistake, the ones
\* that lock the session included, the snapshot stored for the puzzle holds
\* the session's order, selection, found, mistakes, mistakesLog, guesses,
\* locked and failed as they are at the end of the submit.
C21_SubmitIsSaved ==
  [][(submit /\ Len(guesses') = Len(guesses) + 1) =>
       /\ storage'[StorageKey(id)] # NoItem
       /\ LET p == storage'[StorageKey(id)][1]
          IN  /\ p.order = order' /\ p.selection = selection'
              /\ p.found = found' /\ p.mistakes = mistakes'
              /\ p.mistakesLog = mistakesLog' /\ p.guesses = guesses'
              /\ p.locked = locked' /\ p.failed = failed'
    ]_vars

\* A second mistake was just recorded; its four cards are still selected and
\* the snapshot lists them.
C21_Witness ==
  /\ toasts = <<"Not a group">>
  /\ mistakes = 2 /\ Len(selection) = 4
  /\ storage[StorageKey(id)] = LiveSnapshot

\* The defaults loadPuzzle gives the session fields
SessionDefaults ==
  [order |-> <<>>, selection |-> <<>>, found |-> <<>>, mistakes |-> 0,
   mistakesLog |-> <<>>, guesses |-> <<>>, locked |-> FALSE, failed |-> FALSE]

\* The value the claim C22 gives field f of the session loaded from item raw
ShapedOrDefault(raw, f) ==
  IF raw = NoItem \/ Throws(raw) THEN SessionDefaults[f]
  ELSE IF Has(raw[1], f) THEN raw[1][f]
  ELSE SessionDefaults[f]

\* C22: loading a puzzle whose stored snapshot has a field that is absent or
\* of the wrong shape gives that field its default and restores the fields of
\* the right shape; a snapshot that cannot be parsed leaves every field at its
\* default.  (order and selection are compared when buildBoard keeps them.)
C22_OddFieldsTakeDefaults ==
  [][LoadPuzzle(RestoredId) =>
       LET raw == storage[StorageKey(RestoredId)]
       IN  /\ found' = ShapedOrDefault(raw, "found")
           /\ mistakes' = ShapedOrDefault(raw, "mistakes")
           /\ mistakesLog' = ShapedOrDefault(raw, "mistakesLog")
           /\ guesses' = ShapedOrDefault(raw, "guesses")
           /\ locked' = ShapedOrDefault(raw, "locked")
           /\ failed' = ShapedOrDefault(raw, "failed")
           /\ ~BoardIsStale(RestoredId, ShapedOrDefault(raw, "order"),
                            found', locked') =>
                /\ order' = ShapedOrDefault(raw, "order")
                /\ selection' = ShapedOrDefault(raw, "selection")
    ]_vars

\* C23: restoring a snapshot that has no failed field sets failed to (locked
\* and mistakes >= 4), for every combination of the locked and mistakes the
\* snapshot holds; restoring a snapshot that has a boolean failed field
\* restores that value.
C23_FailedBackCompat ==
  [][LoadPuzzle(RestoredId) =>
       LET raw == storage[StorageKey(RestoredId)]
       IN  (raw # NoItem /\ ~Throws(raw)) =>
             /\ Undefined(raw, "failed") =>
                  /\ failed' = (locked' /\ mistakes' >= 4)
                  /\ (Has(raw[1], "locked") /\ Has(raw[1], "mistakes")) =>
                       failed' = (raw[1].locked /\ raw[1].mistakes >= 4)
             /\ Has(raw[1], "failed") => failed' = raw[1].failed
    ]_vars

\* A locked snapshot with 5 mistakes and no failed field was loaded as failed.
C23_Witness ==
  /\ id = RestoredId
  /\ storage[StorageKey(id)] # NoItem
  /\ Undefined(storage[StorageKey(id)], "failed")
  /\ Has(storage[StorageKey(id)][1], "locked")
  /\ storage[StorageKey(id)][1].mistakes = 5
  /\ locked /\ failed /\ mistakes = 5

\* The colour name of the group that owns the card at pool index i
ColorOfCard(i) == Groups[(i \div 4) + 1].colorName

UnfoundIndices ==
  {i \in PoolIndices(id) : WordAt(id, i) \notin FoundWords(found)}

\* C25: in every reachable unlocked state, order is a permutation of exactly
\* the pool indices of the words that belong to no group in found, so it has
\* 16 - 4 * found.length elements without repeats, and the selection is a
\* subset of the indices in order.
C25_BoardIsUnfoundWords ==
  (id # NoId /\ ~locked) =>
    /\ Range(order) = UnfoundIndices
    /\ Len(order) = 16 - 4 * Len(found)
    /\ Cardinality(Range(order)) = Len(order)
    /\ Range(selection) \subseteq Range(order)

\* In Puzzle 7 the guess of one twin, two more words of its group and a word
\* of group 1 was just accepted: both twin cards left the board and the card
\* of group 1 stayed.
C25_Witness ==
  /\ id = Puzzle7.id /\ ~locked
  /\ Len(found) = 1 /\ toasts = <<"Correct">>
  /\ Includes(guesses[Len(guesses)].words, WordAt(id, 0))
  /\ Includes(order, 0) /\ ~Includes(order, 9)
  /\ Len(order) = 12

\* The number of entries of guesses with correct = true
CorrectGuesses == Cardinality({k \in DOMAIN guesses : guesses[k].correct})

\* C26: in every reachable state 0 <= mistakes <= 4, mistakes is the length
\* of mistakesLog, the length of guesses is mistakes plus the number of
\* correct entries, the number of correct entries is at most the length of
\* found, and guesses has at most 7 entries, the session being locked when it
\* has 7.
C26_CountersConsistent ==
  /\ 0 <= mistakes /\ mistakes <= MAX_MISTAKES
  /\ mistakes = Len(mistakesLog)
  /\ Len(guesses) = mistakes + CorrectGuesses
  /\ CorrectGuesses <= Len(found)
  /\ Len(guesses) <= 7
  /\ Len(guesses) = 7 => locked

\* A session solved at its 7th guess, after three mistakes.
C26_Witness ==
  /\ Len(guesses) = 7 /\ locked /\ ~failed
  /\ CorrectGuesses = 4 /\ mistakes = 3
  /\ Len(found) = 4 /\ Len(mistakesLog) = 3

====
